---- MODULE Spec2Model ----
(***************************************************************************)
(* A model of the language-switcher widget of the site:                    *)
(*   contract/contract.ts   buildLanguageView  (view-model construction)   *)
(*   LanguageSwitcher.tsx   the client component (state, effect, handlers) *)
(* and of the functions beside it:                                         *)
(*   utils/browser.tsx      hasTouch, hasMobile, getUserAgent, ...         *)
(*   i18n/routing.tsx       getLocaleFromParams (and generateStaticParams) *)
(*   render/render.tsx      renderLanguageSwitcher  (view to slot tree)    *)
(*   utils/classname.tsx    bemClassnames                                  *)
(*                                                                         *)
(* JavaScript strings are modelled as sequences of one-character strings,  *)
(* so that toLowerCase, includes, split and join are computed and not      *)
(* assumed.  A JavaScript object is a sequence of [code, data] entries in  *)
(* insertion order, which is the order Object.keys / Object.entries give   *)
(* for the (non-numeric) locale codes.                                     *)
(***************************************************************************)
EXTENDS Integers, Sequences, FiniteSets, TLC

VARIABLES
    config,         \* the LanguageSwitcherConfig handed to buildLanguageView
    result,         \* what that call did: pending, returned a view, or threw
    props,          \* LanguageSwitcher props and hooks: locales, currentLocale, pathname
    status,         \* "unmounted", "mounted", "error" (render threw), "removed"
    state,          \* useState values of the last render: isOpen, searchValue
    pending,        \* state updates queued by handlers since the last render
    containerRef,   \* containerRef.current is set (TRUE) or null (FALSE)
    listeners,      \* document 'mousedown' listeners this instance has registered
    cleanup,        \* the last effect run returned a cleanup function
    effectPending,  \* passive effects not yet flushed: "none", "mount", "unmount"
    pushed,         \* the paths handed to router.push, in call order
    lastEvent,      \* the last handler or framework step that ran
    browserIn,      \* the globals (window, document, navigator) and the agent asked for
    browserOut,     \* what the helpers of utils/browser.tsx did there
    routeIn,        \* the routing configuration and the route params
    routeOut,       \* what getLocaleFromParams and generateStaticParams returned
    bemIn,          \* the arguments of bemClassnames
    bemOut,         \* what bemClassnames returned
    renderIn,       \* the handlers given to renderLanguageSwitcher
    renderOut       \* the slot tree renderLanguageSwitcher returned

vars == <<config, result, props, status, state, pending, containerRef,
          listeners, cleanup, effectPending, pushed, lastEvent,
          browserIn, browserOut, routeIn, routeOut, bemIn, bemOut,
          renderIn, renderOut>>

\* The variables of the functions checked apart from the component.
library == <<browserIn, browserOut, routeIn, routeOut, bemIn, bemOut,
             renderIn, renderOut>>

component == <<props, status, state, pending, containerRef,
               listeners, cleanup, effectPending, pushed, lastEvent>>

----------------------------------------------------------------------------
(* Strings *)

\* String.prototype.toLowerCase on the characters the model uses: the ASCII
\* capitals map to their small letters, every other character is unchanged.
UpperToLower ==
    [A |-> "a", B |-> "b", C |-> "c", D |-> "d", E |-> "e", F |-> "f",
     G |-> "g", H |-> "h", I |-> "i", J |-> "j", K |-> "k", L |-> "l",
     M |-> "m", N |-> "n", O |-> "o", P |-> "p", Q |-> "q", R |-> "r",
     S |-> "s", T |-> "t", U |-> "u", V |-> "v", W |-> "w", X |-> "x",
     Y |-> "y", Z |-> "z"]

toLowerCaseChar(c) == IF c \in DOMAIN UpperToLower THEN UpperToLower[c] ELSE c

toLowerCase(s) == [i \in 1..Len(s) |-> toLowerCaseChar(s[i])]

\* String.prototype.includes: sub occurs in s at some offset.
includes(s, sub) ==
    \E i \in 0..(Len(s) - Len(sub)) : SubSeq(s, i + 1, i + Len(sub)) = sub

\* The value `undefined` where a string is expected.
Undefined == <<"undefined">>

\* JavaScript truthiness of a string-or-undefined value.
Truthy(v) == v # Undefined /\ v # <<>>

\* a || b on string-or-undefined values.
OrElse(a, b) == IF Truthy(a) THEN a ELSE b

----------------------------------------------------------------------------
(* Objects *)

\* Object.keys(obj): the own keys, in insertion order.
ObjectKeys(obj) == [i \in 1..Len(obj) |-> obj[i].code]

\* What every plain object inherits from Object.prototype: a property read
\* obj[key] of a key that is not an own key finds these.  Both are functions;
\* a function has a `name` and neither `nativeName` nor `flag`.
ObjectPrototype ==
    { [code |-> <<"c","o","n","s","t","r","u","c","t","o","r">>,
       data |-> [name |-> <<"O","b","j","e","c","t">>]],
      [code |-> <<"t","o","S","t","r","i","n","g">>,
       data |-> [name |-> <<"t","o","S","t","r","i","n","g">>]] }

\* obj[key]: the own property, else the inherited one, else undefined.
\* The value is returned as a sequence of zero (undefined) or one element.
GetProperty(obj, key) ==
    IF \E i \in 1..Len(obj) : obj[i].code = key
    THEN <<obj[CHOOSE i \in 1..Len(obj) : obj[i].code = key].data>>
    ELSE IF \E m \in ObjectPrototype : m.code = key
         THEN <<(CHOOSE m \in ObjectPrototype : m.code = key).data>>
         ELSE <<>>

\* data.field, undefined when the object has no such property.
Field(data, f) == IF f \in DOMAIN data THEN data[f] ELSE Undefined

----------------------------------------------------------------------------
(* contract/contract.ts *)

DefaultSearchPlaceholder == <<"S","e","a","r","c","h">>

ErrLocalesRequired == "Locales configuration is required and cannot be empty"
ErrLocaleRequired  == "Current locale is required"
ErrLocaleNotFound  == "Current locale \"${currentLocale}\" not found in locales configuration"

Threw(message, arg) == [status |-> "threw", message |-> message, arg |-> arg]

\* data.nativeName || data.name
LabelOf(data) == OrElse(Field(data, "nativeName"), Field(data, "name"))

\* Object.entries(locales).map(...)
LanguageItems(locales, currentLocale) ==
    [i \in 1..Len(locales) |->
        [code     |-> locales[i].code,
         label    |-> LabelOf(locales[i].data),
         flag     |-> Field(locales[i].data, "flag"),
         isActive |-> (locales[i].code = currentLocale)]]

MatchesSearch_CaseSensitive(item, searchValue) ==
    \/ includes(toLowerCase(item.label), searchValue)
    \/ includes(toLowerCase(item.code), searchValue)

\* The predicate of items.filter(...)
MatchesSearch(item, searchValue) ==
    \/ includes(toLowerCase(item.label), toLowerCase(searchValue))
    \/ includes(toLowerCase(item.code), toLowerCase(searchValue))

\* searchValue ? items.filter(...) : items
FilterItems(items, searchValue) ==
    IF Truthy(searchValue)
    THEN SelectSeq(items, LAMBDA item : MatchesSearch(item, searchValue))
    ELSE items

\* The label of the trigger in the returned view.
TriggerLabel(cfg, currentLocaleData) == LabelOf(currentLocaleData)

\* !locales || Object.keys(locales).length === 0
LocalesMissing_NoEmptyCheck(cfg) == "locales" \notin DOMAIN cfg

LocalesMissing(cfg) ==
    "locales" \notin DOMAIN cfg \/ Len(ObjectKeys(cfg.locales)) = 0

buildLanguageView(cfg) ==
    LET locales       == cfg.locales
        currentLocale == IF "currentLocale" \in DOMAIN cfg
                         THEN cfg.currentLocale ELSE Undefined
        searchValue   == IF "searchValue" \in DOMAIN cfg
                         THEN cfg.searchValue ELSE <<>>
        isOpenIn      == IF "isOpen" \in DOMAIN cfg THEN cfg.isOpen ELSE FALSE
        placeholder   == IF "searchPlaceholder" \in DOMAIN cfg
                         THEN cfg.searchPlaceholder ELSE DefaultSearchPlaceholder
    IN  IF LocalesMissing(cfg)
        THEN Threw(ErrLocalesRequired, <<>>)
        ELSE IF ~Truthy(currentLocale)
        THEN Threw(ErrLocaleRequired, <<>>)
        ELSE IF GetProperty(locales, currentLocale) = <<>>
        THEN Threw(ErrLocaleNotFound, currentLocale)
        ELSE
          LET currentLocaleData == GetProperty(locales, currentLocale)[1]
              items             == LanguageItems(locales, currentLocale)
          IN  [status |-> "returned",
               view   |->
                 [trigger |-> [label  |-> TriggerLabel(cfg, currentLocaleData),
                               flag   |-> Field(currentLocaleData, "flag"),
                               isOpen |-> isOpenIn],
                  search  |-> [placeholder |-> placeholder,
                               value       |-> searchValue],
                  items         |-> items,
                  filteredItems |-> FilterItems(items, searchValue)]]

----------------------------------------------------------------------------
(* The inputs of buildLanguageView *)

MaxLocales   == 2   \* most entries of a locales object
MaxSearchLen == 2   \* longest search text

LocalePool ==
    { [code |-> <<"e","n">>,
       data |-> [name       |-> <<"E","n","g","l","i","s","h">>,
                 nativeName |-> <<"E","n","g","l","i","s","h">>,
                 flag       |-> <<"US">>]],
      [code |-> <<"e","s">>,
       data |-> [name       |-> <<"S","p","a","n","i","s","h">>,
                 nativeName |-> <<"E","s","p","a","n","o","l">>,
                 flag       |-> <<"ES">>]],
      [code |-> <<"d","e">>,
       data |-> [name       |-> <<"G","e","r","m","a","n">>,
                 nativeName |-> <<>>,
                 flag       |-> <<"DE">>]] }

\* Objects of at most n entries with distinct keys, in every insertion order.
LocaleObjects(n) ==
    UNION { { o \in [1..k -> LocalePool] :
                \A i, j \in 1..k : o[i].code = o[j].code => i = j }
            : k \in 0..n }

SearchAlphabet == {"e", "E", "N", "s"}

Strings(alphabet, n) == UNION { [1..k -> alphabet] : k \in 0..n }

CurrentLocales ==
    { <<>>, <<"e","n">>, <<"e","s">>, <<"d","e">>, <<"f","r">>,
      <<"c","o","n","s","t","r","u","c","t","o","r">> }

CustomTriggerLabel == <<"L","a","n","g">>
CustomPlaceholder  == <<"F","i","n","d">>

\* Records over every choice of present fields.
Optional(f, S) == { [x \in {} |-> 0] } \cup { (f :> v) : v \in S }

Configs ==
    { l @@ c @@ s @@ o @@ t @@ p :
        l \in Optional("locales", LocaleObjects(MaxLocales)),
        c \in Optional("currentLocale", CurrentLocales),
        s \in Optional("searchValue", Strings(SearchAlphabet, MaxSearchLen)),
        o \in Optional("isOpen", BOOLEAN),
        t \in Optional("triggerLabel", {CustomTriggerLabel}),
        p \in Optional("searchPlaceholder", {CustomPlaceholder}) }

Pending == [status |-> "pending"]

\* No library function is involved.
NoLibrary ==
    /\ browserIn = Pending /\ browserOut = Pending
    /\ routeIn = Pending /\ routeOut = Pending
    /\ bemIn = Pending /\ bemOut = Pending
    /\ renderIn = Pending /\ renderOut = Pending

----------------------------------------------------------------------------
(* One call of buildLanguageView on any configuration *)

\* No component is involved in a direct call.
NoComponent ==
    /\ props = [locales |-> <<>>, currentLocale |-> <<>>, pathname |-> <<"/">>]
    /\ status = "unmounted"
    /\ state = [isOpen |-> FALSE, searchValue |-> <<>>]
    /\ pending = <<>>
    /\ containerRef = FALSE
    /\ listeners = 0
    /\ cleanup = FALSE
    /\ effectPending = "none"
    /\ pushed = <<>>
    /\ lastEvent = [op |-> "none"]

InitView == config \in Configs /\ result = Pending /\ NoComponent /\ NoLibrary

CallBuildLanguageView ==
    /\ result = Pending
    /\ result' = buildLanguageView(config)
    /\ UNCHANGED <<config, component, library>>

NextView == CallBuildLanguageView

SpecView == InitView /\ [][NextView]_vars

----------------------------------------------------------------------------
(* LanguageSwitcher.tsx: state updates *)

\* setIsOpen(prev => !prev), setIsOpen(b), setSearchValue(v): React queues
\* the update and applies the queue, in order, at the next render.
ToggleIsOpen      == [target |-> "isOpen", kind |-> "updater"]
SetIsOpen(b)      == [target |-> "isOpen", kind |-> "value", value |-> b]
SetSearchValue(v) == [target |-> "searchValue", kind |-> "value", value |-> v]

ApplyUpdate(st, u) ==
    IF u.target = "isOpen"
    THEN [st EXCEPT !.isOpen = IF u.kind = "updater" THEN ~st.isOpen ELSE u.value]
    ELSE [st EXCEPT !.searchValue = u.value]

RECURSIVE ApplyAll(_, _)
ApplyAll(st, queue) ==
    IF queue = <<>> THEN st
    ELSE ApplyAll(ApplyUpdate(st, Head(queue)), Tail(queue))

----------------------------------------------------------------------------
(* LanguageSwitcher.tsx: the handlers, as the updates they request *)

\* handleClickOutside(event): contains is FALSE for a target outside the
\* container.
handleClickOutside_KeepsSearch(refSet, inside) ==
    IF refSet /\ ~inside THEN <<SetIsOpen(FALSE)>> ELSE <<>>

handleClickOutside_AnyTarget(refSet, inside) ==
    <<SetIsOpen(FALSE), SetSearchValue(<<>>)>>

handleClickOutside(refSet, inside) ==
    IF refSet /\ ~inside
    THEN <<SetIsOpen(FALSE), SetSearchValue(<<>>)>>
    ELSE <<>>

onToggle_NeverClears(open) == <<ToggleIsOpen>>

\* onToggle, created by a render that saw isOpen = open.
onToggle(open) ==
    <<ToggleIsOpen>> \o (IF open THEN <<SetSearchValue(<<>>)>> ELSE <<>>)

\* onSearch(value)
onSearch(value) == <<SetSearchValue(value)>>

\* pathname.split('/')
RECURSIVE SplitSlash(_)
SplitSlash(s) ==
    IF \A i \in 1..Len(s) : s[i] # "/"
    THEN <<s>>
    ELSE LET i == CHOOSE k \in 1..Len(s) :
                      s[k] = "/" /\ \A j \in 1..(k - 1) : s[j] # "/"
         IN  <<SubSeq(s, 1, i - 1)>> \o SplitSlash(SubSeq(s, i + 1, Len(s)))

\* .filter(Boolean) on strings: the empty string is dropped.
FilterBoolean(segs) == SelectSeq(segs, LAMBDA x : x # <<>>)

\* segments.join('/')
RECURSIVE JoinSlash(_)
JoinSlash(segs) ==
    IF segs = <<>> THEN <<>>
    ELSE IF Len(segs) = 1 THEN segs[1]
    ELSE segs[1] \o <<"/">> \o JoinSlash(Tail(segs))

\* Object.keys(locales).includes(x)
IsLocaleKey(locales, x) == \E i \in 1..Len(locales) : ObjectKeys(locales)[i] = x

NewPath_AlwaysUnshift(path, locales, code) ==
    <<"/">> \o JoinSlash(<<code>> \o FilterBoolean(SplitSlash(path)))

\* The path onSelect hands to router.push.
NewPath(path, locales, code) ==
    LET segments == FilterBoolean(SplitSlash(path))
        rewritten ==
            IF Len(segments) > 0 /\ IsLocaleKey(locales, segments[1])
            THEN [segments EXCEPT ![1] = code]
            ELSE <<code>> \o segments
    IN  IF Len(rewritten) > 0
        THEN <<"/">> \o JoinSlash(rewritten)
        ELSE <<"/">> \o code

SelectNavigates_Always(code, currentLocale) == TRUE

\* onSelect returns early, without navigating, for the current locale.
SelectNavigates(code, currentLocale) == code # currentLocale

\* onSelect(code): both branches close the dropdown and clear the search.
onSelect(code) == <<SetIsOpen(FALSE), SetSearchValue(<<>>)>>

\* router.push(path)
RouterPush(path) == [target |-> "router", kind |-> "push", value |-> path]

onSelectCalls_PushFirst(p, code) ==
    IF SelectNavigates(code, p.currentLocale)
    THEN <<RouterPush(NewPath(p.pathname, p.locales, code))>> \o onSelect(code)
    ELSE onSelect(code)

\* The calls onSelect(code) makes, in order, in a component with props p.
onSelectCalls(p, code) ==
    IF SelectNavigates(code, p.currentLocale)
    THEN onSelect(code) \o <<RouterPush(NewPath(p.pathname, p.locales, code))>>
    ELSE onSelect(code)

\* Of a handler's calls: the state updates, and the paths pushed.
StateUpdates(calls) == SelectSeq(calls, LAMBDA c : c.target # "router")
PushedPaths(calls) ==
    LET pushes == SelectSeq(calls, LAMBDA c : c.target = "router")
    IN  [i \in 1..Len(pushes) |-> pushes[i].value]

EffectSubscribes_Always(open) == TRUE

\* The effect adds the listener (and returns a cleanup) only when isOpen.
EffectSubscribes(open) == open

----------------------------------------------------------------------------
(* LanguageSwitcher.tsx: the component *)

MaxPending == 4   \* most updates queued between two renders
MaxPush    == 1   \* most router.push calls followed

En == <<"e","n">>
Es == <<"e","s">>
De == <<"d","e">>
Fr == <<"f","r">>

Pool(code) == CHOOSE e \in LocalePool : e.code = code

PropsLocales == { <<Pool(En), Pool(Es)>>, <<Pool(De), Pool(Es), Pool(En)>> }

PropsCurrentLocales == { En, Es, Fr }

\* "/", "/en", "/es/a", "/a/en/", "/fr/a"
Pathnames ==
    { <<"/">>,
      <<"/","e","n">>,
      <<"/","e","s","/","a">>,
      <<"/","a","/","e","n","/">>,
      <<"/","f","r","/","a">> }

\* What the search input can be given.
TypedValues == { <<"e">>, <<"E","N">> }

InitialState == [isOpen |-> FALSE, searchValue |-> <<>>]

\* config, as each render builds it.
RenderConfig(p, st) ==
    [locales           |-> p.locales,
     currentLocale     |-> p.currentLocale,
     searchValue       |-> st.searchValue,
     isOpen            |-> st.isOpen,
     searchPlaceholder |-> DefaultSearchPlaceholder]

Init ==
    /\ props \in [locales : PropsLocales,
                  currentLocale : PropsCurrentLocales,
                  pathname : Pathnames]
    /\ status = "unmounted"
    /\ state = InitialState
    /\ pending = <<>>
    /\ containerRef = FALSE
    /\ listeners = 0
    /\ cleanup = FALSE
    /\ effectPending = "none"
    /\ pushed = <<>>
    /\ lastEvent = [op |-> "none"]
    /\ config = RenderConfig(props, state)
    /\ result = Pending
    /\ NoLibrary

\* The first render.  A throw of buildLanguageView aborts it: nothing is
\* committed.  Otherwise the ref is attached and the effect is scheduled.
Mount ==
    /\ status = "unmounted"
    /\ config' = RenderConfig(props, InitialState)
    /\ result' = buildLanguageView(config')
    /\ IF result'.status = "threw"
       THEN /\ status' = "error"
            /\ UNCHANGED <<containerRef, effectPending>>
       ELSE /\ status' = "mounted"
            /\ containerRef' = TRUE
            /\ effectPending' = "mount"
    /\ lastEvent' = [op |-> "mount"]
    /\ UNCHANGED <<props, state, pending, listeners, cleanup, pushed>>
    /\ UNCHANGED library

RunCleanup_Leak(n, had) == n

\* The effect body and its cleanup, as they change the listener count.
RunCleanup(n, had)  == IF had THEN n - 1 ELSE n
RunEffectBody(n, open) == IF EffectSubscribes(open) THEN n + 1 ELSE n

\* Passive effects of the first render, or the cleanup after removal.
FlushEffects ==
    /\ effectPending # "none"
    /\ IF effectPending = "mount"
       THEN /\ listeners' = RunEffectBody(listeners, state.isOpen)
            /\ cleanup' = EffectSubscribes(state.isOpen)
       ELSE /\ listeners' = RunCleanup(listeners, cleanup)
            /\ cleanup' = FALSE
    /\ effectPending' = "none"
    /\ lastEvent' = [op |-> "effect"]
    /\ UNCHANGED <<config, result, props, status, state, pending,
                   containerRef, pushed>>
    /\ UNCHANGED library

\* A re-render: the queued updates are applied, the view is rebuilt, and the
\* effect is re-run (cleanup first) when its dependency isOpen has changed.
\* Every update comes from a click, input or mousedown event, whose render
\* flushes its effects before it returns.
Render ==
    /\ status = "mounted"
    /\ effectPending = "none"
    /\ pending # <<>>
    /\ state' = ApplyAll(state, pending)
    /\ pending' = <<>>
    /\ config' = RenderConfig(props, state')
    /\ result' = buildLanguageView(config')
    /\ IF state'.isOpen # state.isOpen
       THEN /\ listeners' = RunEffectBody(RunCleanup(listeners, cleanup),
                                          state'.isOpen)
            /\ cleanup' = EffectSubscribes(state'.isOpen)
       ELSE UNCHANGED <<listeners, cleanup>>
    /\ lastEvent' = [op |-> "render"]
    /\ UNCHANGED <<props, status, containerRef, effectPending, pushed>>
    /\ UNCHANGED library

Enqueue(updates) ==
    /\ Len(pending) + Len(updates) <= MaxPending
    /\ pending' = pending \o updates

\* A click on the trigger button.
OnToggle ==
    /\ status = "mounted"
    /\ Enqueue(onToggle(state.isOpen))
    /\ lastEvent' = [op |-> "onToggle", wasOpen |-> state.isOpen]
    /\ UNCHANGED <<config, result, props, status, state, containerRef,
                   listeners, cleanup, effectPending, pushed>>
    /\ UNCHANGED library

\* Typing in the search input, which the dropdown shows only when open.
OnSearch(value) ==
    /\ status = "mounted"
    /\ result.view.trigger.isOpen
    /\ Enqueue(onSearch(value))
    /\ lastEvent' = [op |-> "onSearch", value |-> value]
    /\ UNCHANGED <<config, result, props, status, state, containerRef,
                   listeners, cleanup, effectPending, pushed>>
    /\ UNCHANGED library

\* A click on one of the rendered items.
OnSelect(code) ==
    /\ status = "mounted"
    /\ result.view.trigger.isOpen
    /\ LET calls == onSelectCalls(props, code)
       IN  /\ Enqueue(StateUpdates(calls))
           /\ Len(pushed) + Len(PushedPaths(calls)) <= MaxPush
           /\ pushed' = pushed \o PushedPaths(calls)
           /\ lastEvent' = [op |-> "onSelect", code |-> code, calls |-> calls]
    /\ UNCHANGED <<config, result, props, status, state, containerRef,
                   listeners, cleanup, effectPending>>
    /\ UNCHANGED library

\* A mousedown somewhere in the document: the registered listener runs.  It
\* may still be registered after removal, until the cleanup runs; the ref is
\* null by then.
MouseDown(inside) ==
    /\ status \in {"mounted", "removed"}
    /\ IF listeners > 0
       THEN Enqueue(handleClickOutside(containerRef, inside))
       ELSE UNCHANGED pending
    /\ lastEvent' = [op |-> "mousedown", inside |-> inside,
                     heard |-> (listeners > 0), refSet |-> containerRef,
                     wasOpen |-> state.isOpen]
    /\ UNCHANGED <<config, result, props, status, state, containerRef,
                   listeners, cleanup, effectPending, pushed>>
    /\ UNCHANGED library

\* The component is removed from the tree: the ref is detached and the
\* queued updates are dropped; the effect's cleanup runs with the next flush.
Unmount ==
    /\ status = "mounted"
    /\ effectPending = "none"
    /\ status' = "removed"
    /\ containerRef' = FALSE
    /\ pending' = <<>>
    /\ effectPending' = "unmount"
    /\ lastEvent' = [op |-> "unmount"]
    /\ UNCHANGED <<config, result, props, state, listeners, cleanup, pushed>>
    /\ UNCHANGED library

RenderedCodes ==
    IF result.status = "returned"
    THEN { result.view.filteredItems[i].code :
             i \in 1..Len(result.view.filteredItems) }
    ELSE {}

Next ==
    \/ Mount
    \/ FlushEffects
    \/ Render
    \/ OnToggle
    \/ \E value \in TypedValues : OnSearch(value)
    \/ \E code \in RenderedCodes : OnSelect(code)
    \/ \E inside \in BOOLEAN : MouseDown(inside)
    \/ Unmount

Spec == Init /\ [][Next]_vars

\* The state the next render will commit.
Flushed == ApplyAll(state, pending)

----------------------------------------------------------------------------
(* render/render.tsx *)

\* <C.Item key={item.code} item={item} onClick={onSelect} />
ItemSlot(item, handlers) ==
    [slot |-> "Item", key |-> item.code, item |-> item,
     onClick |-> handlers.onSelect]

ItemSlots_AllItems(view, handlers) ==
    [i \in 1..Len(view.items) |-> ItemSlot(view.items[i], handlers)]

\* view.filteredItems.map((item) => <C.Item ... />)
ItemSlots(view, handlers) ==
    [i \in 1..Len(view.filteredItems) |->
        ItemSlot(view.filteredItems[i], handlers)]

\* The element tree returned: each slot with its props and its children.
renderLanguageSwitcher(view, handlers) ==
    [slot     |-> "Root",
     children |->
       << [slot    |-> "Trigger",
           label   |-> view.trigger.label,
           flag    |-> view.trigger.flag,
           isOpen  |-> view.trigger.isOpen,
           onClick |-> handlers.onToggle],
          [slot     |-> "Dropdown",
           isOpen   |-> view.trigger.isOpen,
           children |->
             << [slot        |-> "SearchInput",
                 placeholder |-> view.search.placeholder,
                 value       |-> view.search.value,
                 onChange    |-> handlers.onSearch],
                [slot     |-> "ItemsList",
                 children |-> ItemSlots(view, handlers)] >>] >>]

----------------------------------------------------------------------------
(* One render of the view of any state of the component *)

\* The handlers object: three functions, told apart by their identity.
Handlers ==
    { [onToggle |-> "onToggle", onSearch |-> "onSearch", onSelect |-> "onSelect"],
      [onToggle |-> "f", onSearch |-> "g", onSelect |-> "h"] }

\* The configurations the component builds, whatever its state is.
ComponentConfigs ==
    { RenderConfig(p, st) :
        p  \in [locales : PropsLocales, currentLocale : PropsCurrentLocales],
        st \in [isOpen : BOOLEAN,
                searchValue : Strings(SearchAlphabet, MaxSearchLen)] }

InitRender ==
    /\ config \in ComponentConfigs
    /\ result = Pending
    /\ renderIn \in [handlers : Handlers]
    /\ renderOut = Pending
    /\ browserIn = Pending /\ browserOut = Pending
    /\ routeIn = Pending /\ routeOut = Pending
    /\ bemIn = Pending /\ bemOut = Pending
    /\ NoComponent

\* const view = buildLanguageView(config), of which a throw ends the render.
BuildView ==
    /\ result = Pending
    /\ result' = buildLanguageView(config)
    /\ UNCHANGED <<config, component, library>>

CallRenderLanguageSwitcher ==
    /\ result # Pending /\ result.status = "returned"
    /\ renderOut = Pending
    /\ renderOut' = [status |-> "done",
                     value  |-> renderLanguageSwitcher(result.view, renderIn.handlers)]
    /\ UNCHANGED <<config, result, component, browserIn, browserOut,
                   routeIn, routeOut, bemIn, bemOut, renderIn>>

NextRender == BuildView \/ CallRenderLanguageSwitcher

SpecRender == InitRender /\ [][NextRender]_vars

----------------------------------------------------------------------------
(* utils/browser.tsx *)

\* How an expression or a function body ends: with a value, or by throwing.
Normal(v) == [threw |-> FALSE, value |-> v]
Thrown    == [threw |-> TRUE]

\* try { body } catch (error) { return fallback }
TryCatch(body, fallback) == IF body.threw THEN Normal(fallback) ELSE body

\* typeof g !== 'undefined'
Defined(env, g) == g \in DOMAIN env

\* The three detections of hasTouch.  A read of an undefined global, and
\* `in` on a missing documentElement, throw.
hasTouchBody(env) ==
    IF \/ ~Defined(env, "document")
       \/ "documentElement" \notin DOMAIN env.document
       \/ ~Defined(env, "navigator")
    THEN Thrown
    ELSE LET hasTouchEvents   == "ontouchstart" \in env.document.documentElement
             hasPointerEvents == "onpointerdown" \in env.document.documentElement
             hasTouchPoints   == env.navigator.maxTouchPoints > 0
         IN  Normal(IF hasTouchEvents \/ hasPointerEvents \/ hasTouchPoints
                    THEN "has-touch" ELSE "no-touch")

hasTouch_Unguarded(env) == hasTouchBody(env)

hasTouch(env) ==
    IF ~Defined(env, "window") \/ ~Defined(env, "document")
    THEN Normal("no-touch")
    ELSE TryCatch(hasTouchBody(env), "no-touch")

\* /Android|webOS|iPhone|iPad|iPod|BlackBerry|IEMobile|Opera Mini|Windows Phone|Mobile/i
MobileWords ==
    { <<"a","n","d","r","o","i","d">>,
      <<"w","e","b","o","s">>,
      <<"i","p","h","o","n","e">>,
      <<"i","p","a","d">>,
      <<"i","p","o","d">>,
      <<"b","l","a","c","k","b","e","r","r","y">>,
      <<"i","e","m","o","b","i","l","e">>,
      <<"o","p","e","r","a"," ","m","i","n","i">>,
      <<"w","i","n","d","o","w","s"," ","p","h","o","n","e">>,
      <<"m","o","b","i","l","e">> }

mobileRegexTest(ua) == \E w \in MobileWords : includes(toLowerCase(ua), w)

\* /iPad|Android(?!.*Mobile)|Tablet/i: Android counts only where no Mobile
\* follows it.
tabletRegexTest(ua) ==
    LET low     == toLowerCase(ua)
        android == <<"a","n","d","r","o","i","d">>
    IN  \/ includes(low, <<"i","p","a","d">>)
        \/ includes(low, <<"t","a","b","l","e","t">>)
        \/ \E i \in 0..(Len(low) - Len(android)) :
              /\ SubSeq(low, i + 1, i + Len(android)) = android
              /\ ~includes(SubSeq(low, i + Len(android) + 1, Len(low)), <<"m","o","b","i","l","e">>)

MobileMaxWidth == 768

hasMobileBody(env) ==
    LET isMobileUA       == mobileRegexTest(env.navigator.userAgent)
        isTablet         == tabletRegexTest(env.navigator.userAgent)
        isNarrowViewport == IF env.window.innerWidth # 0
                            THEN env.window.innerWidth <= MobileMaxWidth
                            ELSE FALSE
        touch            == hasTouch(env)
        isTouchDevice    == touch.value = "has-touch"
    IN  IF touch.threw
        THEN Thrown
        ELSE Normal(IF isMobileUA \/ isTablet \/ (isNarrowViewport /\ isTouchDevice)
                    THEN "has-mobile" ELSE "no-mobile")

hasMobile(env) ==
    IF ~Defined(env, "window") \/ ~Defined(env, "navigator")
    THEN Normal("no-mobile")
    ELSE TryCatch(hasMobileBody(env), "no-mobile")

isUserAgent(env, agent) ==
    IF ~Defined(env, "navigator") THEN Normal(FALSE)
    ELSE IF ~Truthy(agent) THEN Normal(FALSE)
    ELSE TryCatch(Normal(includes(toLowerCase(env.navigator.userAgent),
                                  toLowerCase(agent))), FALSE)

BrowserNameOf_ChromeBeforeEdge(userAgent) ==
    IF includes(userAgent, <<"b","r","a","v","e">>) THEN "Brave"
    ELSE IF includes(userAgent, <<"s","a","m","s","u","n","g">>) THEN "Samsung"
    ELSE IF includes(userAgent, <<"o","p","r">>) \/ includes(userAgent, <<"o","p","e","r","a">>) THEN "Opera"
    ELSE IF includes(userAgent, <<"c","h","r","o","m","e">>) THEN "Chrome"
    ELSE IF includes(userAgent, <<"e","d","g">>) THEN "Edge"
    ELSE IF includes(userAgent, <<"s","a","f","a","r","i">>) /\ ~includes(userAgent, <<"c","h","r","o","m","e">>) THEN "Safari"
    ELSE IF includes(userAgent, <<"f","i","r","e","f","o","x">>) THEN "Firefox"
    ELSE "Unknown"

\* The chain of checks of getUserAgent, on the lower-cased user agent.
BrowserNameOf(userAgent) ==
    IF includes(userAgent, <<"b","r","a","v","e">>) THEN "Brave"
    ELSE IF includes(userAgent, <<"s","a","m","s","u","n","g">>) THEN "Samsung"
    ELSE IF includes(userAgent, <<"o","p","r">>) \/ includes(userAgent, <<"o","p","e","r","a">>) THEN "Opera"
    ELSE IF includes(userAgent, <<"e","d","g">>) THEN "Edge"
    ELSE IF includes(userAgent, <<"c","h","r","o","m","e">>) THEN "Chrome"
    ELSE IF includes(userAgent, <<"s","a","f","a","r","i">>) /\ ~includes(userAgent, <<"c","h","r","o","m","e">>) THEN "Safari"
    ELSE IF includes(userAgent, <<"f","i","r","e","f","o","x">>) THEN "Firefox"
    ELSE "Unknown"

getUserAgent(env) ==
    IF ~Defined(env, "navigator") THEN Normal("Unknown")
    ELSE TryCatch(Normal(BrowserNameOf(toLowerCase(env.navigator.userAgent))),
                  "Unknown")

\* viewport is null (the empty sequence) or one {width, height} object.
BrowserInfoFallback ==
    [name |-> "Unknown", hasTouch |-> "no-touch", isMobile |-> "no-mobile",
     userAgent |-> <<>>, viewport |-> <<>>, platform |-> <<>>]

getBrowserInfoBody(env) ==
    LET name   == getUserAgent(env)
        touch  == hasTouch(env)
        mobile == hasMobile(env)
    IN  IF name.threw \/ touch.threw \/ mobile.threw
        THEN Thrown
        ELSE Normal(
          [name      |-> name.value,
           hasTouch  |-> touch.value,
           isMobile  |-> mobile.value,
           userAgent |-> IF Defined(env, "navigator")
                         THEN env.navigator.userAgent ELSE <<>>,
           viewport  |-> IF Defined(env, "window")
                         THEN <<[width  |-> env.window.innerWidth,
                                 height |-> env.window.innerHeight]>>
                         ELSE <<>>,
           platform  |-> IF Defined(env, "navigator")
                         THEN env.navigator.platform ELSE <<>>])

getBrowserInfo(env) == TryCatch(getBrowserInfoBody(env), BrowserInfoFallback)

isSSR(env) == Normal(~Defined(env, "window"))

----------------------------------------------------------------------------
(* The environments of the browser helpers *)

MaxUATokens == 2   \* most product tokens of a user agent string

UATokens ==
    { <<"B","r","a","v","e">>,
      <<"S","a","m","s","u","n","g","B","r","o","w","s","e","r">>,
      <<"O","P","R">>,
      <<"O","p","e","r","a">>,
      <<"E","d","g">>,
      <<"C","h","r","o","m","e">>,
      <<"S","a","f","a","r","i">>,
      <<"F","i","r","e","f","o","x">>,
      <<"A","n","d","r","o","i","d">>,
      <<"M","o","b","i","l","e">> }

\* The tokens of a user agent, separated by single spaces.
RECURSIVE JoinSpace(_)
JoinSpace(words) ==
    IF words = <<>> THEN <<>>
    ELSE IF Len(words) = 1 THEN words[1]
    ELSE words[1] \o <<" ">> \o JoinSpace(Tail(words))

UserAgents ==
    { JoinSpace(ts) :
        ts \in UNION { { t \in [1..k -> UATokens] :
                           \A i, j \in 1..k : t[i] = t[j] => i = j }
                       : k \in 0..MaxUATokens } }

Windows ==
    { [innerWidth |-> w, innerHeight |-> 800] : w \in {0, 375, 1024} }

Documents ==
    { [x \in {} |-> 0] } \cup
    { [documentElement |-> d] : d \in { {}, {"ontouchstart"}, {"onpointerdown"} } }

Navigators ==
    { [userAgent |-> ua, maxTouchPoints |-> t, platform |-> <<"L","i","n","u","x">>] :
        ua \in UserAgents, t \in {0, 5} }

Environments ==
    { w @@ d @@ n :
        w \in Optional("window", Windows),
        d \in Optional("document", Documents),
        n \in Optional("navigator", Navigators) }

\* What isUserAgent is asked for: nothing, '', 'chrome', 'EDG'.
Agents == { Undefined, <<>>, <<"c","h","r","o","m","e">>, <<"E","D","G">> }

InitBrowser ==
    /\ browserIn \in [env : Environments, agent : Agents]
    /\ browserOut = Pending
    /\ routeIn = Pending /\ routeOut = Pending
    /\ bemIn = Pending /\ bemOut = Pending
    /\ renderIn = Pending /\ renderOut = Pending
    /\ config = [x \in {} |-> 0] /\ result = Pending
    /\ NoComponent

\* Every helper is called once in the environment.
CallBrowserHelpers ==
    /\ browserOut = Pending
    /\ browserOut' =
         [status         |-> "done",
          hasTouch       |-> hasTouch(browserIn.env),
          hasMobile      |-> hasMobile(browserIn.env),
          isUserAgent    |-> isUserAgent(browserIn.env, browserIn.agent),
          getUserAgent   |-> getUserAgent(browserIn.env),
          getBrowserInfo |-> getBrowserInfo(browserIn.env),
          isSSR          |-> isSSR(browserIn.env)]
    /\ UNCHANGED <<config, result, component, browserIn,
                   routeIn, routeOut, bemIn, bemOut, renderIn, renderOut>>

NextBrowser == CallBrowserHelpers

SpecBrowser == InitBrowser /\ [][NextBrowser]_vars

----------------------------------------------------------------------------
(* i18n/routing.tsx and the page's generateStaticParams *)

\* array.includes(value)
ArrayIncludes(array, value) == \E i \in 1..Len(array) : array[i] = value

\* array[0], undefined for an empty array.
First(array) == IF Len(array) > 0 THEN array[1] ELSE Undefined

IsValidLocale_Always(routing, localeArray, currentLocale) == TRUE

\* localeArray.length === 0 || routing.locales.includes(currentLocale)
IsValidLocale(routing, localeArray, currentLocale) ==
    Len(localeArray) = 0 \/ ArrayIncludes(routing.locales, currentLocale)

getLocaleFromParams(routing, resolvedParams) ==
    LET localeArray   == IF "locale" \in DOMAIN resolvedParams
                         THEN resolvedParams.locale ELSE <<>>
        currentLocale == OrElse(First(localeArray), routing.defaultLocale)
    IN  [localeArray   |-> localeArray,
         currentLocale |-> currentLocale,
         isValidLocale |-> IsValidLocale(routing, localeArray, currentLocale)]

generateStaticParams_NoDefaultRoute(routing) ==
    [i \in 1..Len(routing.locales) |-> [locale |-> <<routing.locales[i]>>]]

generateStaticParams(routing) ==
    << [locale |-> <<>>] >> \o
    [i \in 1..Len(routing.locales) |-> [locale |-> <<routing.locales[i]>>]]

----------------------------------------------------------------------------
(* The routings and the route parameters *)

MaxRouteLocales == 2   \* most supported locales of a routing
MaxSegments     == 2   \* most path segments of a route

\* Sequences without repetition, of 1..n elements of S.
Distinct(S, n) ==
    UNION { { a \in [1..k -> S] : \A i, j \in 1..k : a[i] = a[j] => i = j }
            : k \in 1..n }

\* defineRouting: the supported locales, and one of them as the default.
Routings ==
    UNION { { [locales |-> l, defaultLocale |-> l[d]] : d \in 1..Len(l) }
            : l \in Distinct({En, Es, De}, MaxRouteLocales) }

\* The segments of a path under app/[[...locale]]: none, or non-empty ones.
RouteParams ==
    Optional("locale", Strings({En, Es, De, Fr}, MaxSegments))

InitRouting ==
    /\ routeIn \in [routing : Routings, params : RouteParams]
    /\ routeOut = Pending
    /\ browserIn = Pending /\ browserOut = Pending
    /\ bemIn = Pending /\ bemOut = Pending
    /\ renderIn = Pending /\ renderOut = Pending
    /\ config = [x \in {} |-> 0] /\ result = Pending
    /\ NoComponent

CallGetLocaleFromParams ==
    /\ routeOut.status # "getLocaleFromParams"
    /\ routeOut' = [status |-> "getLocaleFromParams",
                    value  |-> getLocaleFromParams(routeIn.routing, routeIn.params)]
    /\ UNCHANGED <<config, result, component, browserIn, browserOut,
                   routeIn, bemIn, bemOut, renderIn, renderOut>>

CallGenerateStaticParams ==
    /\ routeOut.status # "generateStaticParams"
    /\ routeOut' = [status |-> "generateStaticParams",
                    value  |-> generateStaticParams(routeIn.routing)]
    /\ UNCHANGED <<config, result, component, browserIn, browserOut,
                   routeIn, bemIn, bemOut, renderIn, renderOut>>

NextRouting == CallGetLocaleFromParams \/ CallGenerateStaticParams

SpecRouting == InitRouting /\ [][NextRouting]_vars

----------------------------------------------------------------------------
(* utils/classname.tsx *)

RECURSIVE TrimStart(_)
TrimStart(s) == IF s # <<>> /\ Head(s) = " " THEN TrimStart(Tail(s)) ELSE s

RECURSIVE TrimEnd(_)
TrimEnd(s) ==
    IF s # <<>> /\ s[Len(s)] = " " THEN TrimEnd(SubSeq(s, 1, Len(s) - 1)) ELSE s

\* s.trim()
Trim(s) == TrimEnd(TrimStart(s))

\* element?.trim(): undefined when there is no element.
TrimmedElement(args) ==
    IF "element" \in DOMAIN args THEN Trim(args.element) ELSE Undefined

\* c && typeof c === 'string' && c.trim()
KeepsModifier(c) == c # Undefined /\ Truthy(c) /\ Truthy(Trim(c))

Prefixed_Never(element, c) == Trim(c)

\* element?.trim() ? `${element.trim()}-${cleanClass}` : cleanClass
Prefixed(element, c) ==
    LET cleanClass == Trim(c)
    IN  IF Truthy(element) THEN element \o <<"-">> \o cleanClass ELSE cleanClass

bemClassnames(args) ==
    LET element   == TrimmedElement(args)
        hasLength == "classname" \in DOMAIN args /\ Len(args.classname) > 0
    IN  IF ~Truthy(element) /\ ~hasLength
        THEN <<>>
        ELSE LET own      == IF Truthy(element) THEN <<element>> ELSE <<>>
                 filtered == IF hasLength
                             THEN SelectSeq(args.classname, KeepsModifier)
                             ELSE <<>>
                 prefixed == [i \in 1..Len(filtered) |-> Prefixed(element, filtered[i])]
             IN  JoinSpace(own \o prefixed)

----------------------------------------------------------------------------
(* The arguments of bemClassnames *)

MaxModifiers == 3   \* most entries of the modifier array

Elements ==
    { <<>>, <<" ">>, <<"b">>, <<" ","b">>, <<"b"," ">>, <<" ","b"," ">> }

\* An entry of the modifier array: a string, or undefined.
Modifiers ==
    { Undefined, <<>>, <<" ">>, <<"m">>, <<" ","m"," ">>, <<"l","g">>, <<"l"," ","g">> }

BemArguments ==
    { e @@ c :
        e \in Optional("element", Elements),
        c \in Optional("classname", Strings(Modifiers, MaxModifiers)) }

InitClassname ==
    /\ bemIn \in BemArguments
    /\ bemOut = Pending
    /\ renderIn = Pending /\ renderOut = Pending
    /\ browserIn = Pending /\ browserOut = Pending
    /\ routeIn = Pending /\ routeOut = Pending
    /\ config = [x \in {} |-> 0] /\ result = Pending
    /\ NoComponent

CallBemClassnames ==
    /\ bemOut = Pending
    /\ bemOut' = [status |-> "done", value |-> bemClassnames(bemIn)]
    /\ UNCHANGED <<config, result, component, browserIn, browserOut,
                   routeIn, routeOut, bemIn, renderIn, renderOut>>

NextClassname == CallBemClassnames

SpecClassname == InitClassname /\ [][NextClassname]_vars

----------------------------------------------------------------------------
(* Properties of buildLanguageView, checked under SpecView *)

Called   == result # Pending
Returned == result.status = "returned"
Has(f)   == f \in DOMAIN config

Range(seq) == { seq[i] : i \in 1..Len(seq) }

\* The own keys of the configured locales (empty when there are none).
OwnKeys == IF Has("locales") THEN Range(ObjectKeys(config.locales)) ELSE {}

\* The entry of the locales object with the given own key.
EntryOf(code) ==
    CHOOSE e \in Range(config.locales) : e.code = code

\* Two characters that are equal up to letter case.
SameLetter(a, b) ==
    \/ a = b
    \/ a \in DOMAIN UpperToLower /\ UpperToLower[a] = b
    \/ b \in DOMAIN UpperToLower /\ UpperToLower[b] = a

\* sub occurs in s at some offset, letter case ignored.
ContainsIgnoringCase(s, sub) ==
    \E off \in 0..(Len(s) - Len(sub)) :
        \A k \in 1..Len(sub) : SameLetter(s[off + k], sub[k])

\* C1: with locales missing or without keys, buildLanguageView throws and
\* returns no view, whatever currentLocale, searchValue and isOpen are.
C1_EmptyLocalesThrow ==
    (Called /\ (~Has("locales") \/ config.locales = <<>>))
        => result.status = "threw" /\ "view" \notin DOMAIN result

C1_Witness ==
    /\ Called
    /\ Has("locales") /\ config.locales = <<>>
    /\ Has("currentLocale") /\ config.currentLocale = <<"e","n">>
    /\ Has("isOpen") /\ config.isOpen
    /\ Has("searchValue") /\ config.searchValue = <<"e">>
    /\ result.status = "threw"

\* C2: with a non-empty locales map, buildLanguageView throws when
\* currentLocale is empty or is no key of locales, and returns a view when
\* currentLocale is a key of locales.
C2_UnknownLocaleThrows ==
    (Called /\ Has("locales") /\ config.locales # <<>>)
        => IF Has("currentLocale") /\ config.currentLocale \in OwnKeys
           THEN result.status = "returned"
           ELSE result.status = "threw"

\* C3: filteredItems holds exactly the items whose label or code contains
\* searchValue, letter case ignored; with searchValue empty or omitted it
\* equals items.
C3_FilterIsCaseInsensitiveSubstring ==
    Returned =>
        LET v       == result.view
            sv      == IF Has("searchValue") THEN config.searchValue ELSE <<>>
            matches == { it \in Range(v.items) :
                            \/ ContainsIgnoringCase(it.label, sv)
                            \/ ContainsIgnoringCase(it.code, sv) }
        IN  /\ Range(v.filteredItems) = matches
            /\ Len(v.filteredItems) = Cardinality(matches)
            /\ sv = <<>> => v.filteredItems = v.items

C3_Witness ==
    /\ Returned
    /\ Has("searchValue") /\ config.searchValue = <<"E","N">>
    /\ Len(result.view.items) = 2
    /\ Len(result.view.filteredItems) = 1
    /\ result.view.filteredItems[1].code = <<"e","n">>

\* C8: when config.triggerLabel is provided, the returned view's
\* trigger.label is that custom label.
C8_TriggerLabelIsCustomLabel ==
    (Returned /\ Has("triggerLabel"))
        => result.view.trigger.label = config.triggerLabel

\* nativeName when it is non-empty, name otherwise.
PreferredName(data) ==
    IF data.nativeName # <<>> THEN data.nativeName ELSE data.name

\* C9: every item's label and the trigger's label is the locale's
\* nativeName when non-empty and its name otherwise; the trigger's label and
\* flag are those of the currentLocale entry.
C9_LabelsPreferNativeName ==
    Returned =>
        LET v == result.view
        IN  /\ \A i \in 1..Len(v.items) :
                  v.items[i].label = PreferredName(EntryOf(v.items[i].code).data)
            /\ config.currentLocale \in OwnKeys
            /\ v.trigger.label = PreferredName(EntryOf(config.currentLocale).data)
            /\ v.trigger.flag = EntryOf(config.currentLocale).data.flag

\* C10: in every returned view an item is active exactly when its code is
\* currentLocale, so exactly one item of items is active.
C10_ExactlyOneActiveItem ==
    Returned =>
        LET v == result.view
        IN  /\ \A i \in 1..Len(v.items) :
                  v.items[i].isActive <=> (v.items[i].code = config.currentLocale)
            /\ Cardinality({ i \in 1..Len(v.items) : v.items[i].isActive }) = 1

\* C22: buildLanguageView checks its inputs in a fixed order: with locales
\* missing or empty it raises the 'locales required' error whatever
\* currentLocale is; otherwise with currentLocale missing or empty the
\* 'current locale is required' error; otherwise with a currentLocale that is
\* no key of locales the 'not found' error; a failing call raises one error.
C22_ValidationOrder ==
    Called =>
        IF ~Has("locales") \/ config.locales = <<>>
        THEN result = Threw(ErrLocalesRequired, <<>>)
        ELSE IF ~Has("currentLocale") \/ config.currentLocale = <<>>
        THEN result = Threw(ErrLocaleRequired, <<>>)
        ELSE IF config.currentLocale \notin OwnKeys
        THEN result = Threw(ErrLocaleNotFound, config.currentLocale)
        ELSE result.status = "returned"

----------------------------------------------------------------------------
(* Properties of the LanguageSwitcher component, checked under Spec *)

\* C4: a mousedown outside the container while the dropdown is open closes
\* the dropdown and resets the search value to the empty string.
C4_OutsideMouseDownCloses ==
    (/\ status = "mounted"
     /\ lastEvent.op = "mousedown"
     /\ ~lastEvent.inside
     /\ lastEvent.wasOpen)
        => Flushed.isOpen = FALSE /\ Flushed.searchValue = <<>>

C4_Witness ==
    /\ status = "mounted"
    /\ lastEvent.op = "mousedown" /\ ~lastEvent.inside /\ lastEvent.wasOpen
    /\ state.isOpen /\ state.searchValue = <<"e">>
    /\ Flushed = [isOpen |-> FALSE, searchValue |-> <<>>]

\* C5: once the effect has run, the document mousedown listener of the
\* instance is registered exactly when its dropdown is open.
C5_ListenerIffOpen ==
    (status = "mounted" /\ effectPending = "none")
        => listeners = (IF state.isOpen THEN 1 ELSE 0)

\* The dropdown was opened (an item was selected) and has closed again.
C5_Witness ==
    /\ status = "mounted" /\ effectPending = "none"
    /\ lastEvent.op = "render"
    /\ pushed # <<>>
    /\ ~state.isOpen /\ listeners = 0

\* The non-empty segments of a path: the maximal runs without a slash.
SegStarts(p) == { i \in 1..Len(p) : p[i] # "/" /\ (i = 1 \/ p[i - 1] = "/") }
SegEnd(p, i) ==
    CHOOSE j \in i..Len(p) :
        /\ \A k \in i..j : p[k] # "/"
        /\ j = Len(p) \/ p[j + 1] = "/"
NthStart(p, n) ==
    CHOOSE i \in SegStarts(p) : Cardinality({ j \in SegStarts(p) : j < i }) = n - 1
PathSegments(p) ==
    [n \in 1..Cardinality(SegStarts(p)) |->
        SubSeq(p, NthStart(p, n), SegEnd(p, NthStart(p, n)))]

\* C6: onSelect with a code other than currentLocale pushes a path made of
\* the pathname's non-empty segments, the first one replaced by the code
\* when it is a key of locales and the code put in front of them otherwise;
\* the other segments are kept, in order.
C6_PushedPathRewritesLocale ==
    (lastEvent.op = "onSelect" /\ lastEvent.code # props.currentLocale)
        => /\ pushed # <<>>
           /\ LET path == pushed[Len(pushed)]
                  old  == PathSegments(props.pathname)
                  new  == PathSegments(path)
              IN  /\ path[1] = "/"
                  /\ IF old # <<>> /\ old[1] \in Range(ObjectKeys(props.locales))
                     THEN /\ Len(new) = Len(old)
                          /\ new[1] = lastEvent.code
                          /\ \A i \in 2..Len(old) : new[i] = old[i]
                     ELSE new = <<lastEvent.code>> \o old

C6_Witness ==
    /\ lastEvent.op = "onSelect" /\ lastEvent.code = De
    /\ props.currentLocale = En
    /\ props.pathname = <<"/","e","s","/","a">>
    /\ pushed = << <<"/","d","e","/","a">> >>

\* C7: onSelect calls router.push exactly once for a code other than
\* currentLocale and not at all for currentLocale, where all it does is
\* close the dropdown and clear the search value.
C7_PushOnlyForOtherLocale ==
    [][ lastEvent'.op = "onSelect" =>
          IF lastEvent'.code # props.currentLocale
          THEN Len(pushed') = Len(pushed) + 1
          ELSE /\ pushed' = pushed
               /\ Flushed'.isOpen = FALSE /\ Flushed'.searchValue = <<>>
               /\ pending' = pending \o <<SetIsOpen(FALSE), SetSearchValue(<<>>)>>
               /\ UNCHANGED <<config, result, props, status, state,
                              containerRef, listeners, cleanup, effectPending>>
      ]_vars

\* The current locale is selected after an earlier selection has navigated.
C7_Witness ==
    /\ lastEvent.op = "onSelect" /\ lastEvent.code = props.currentLocale
    /\ Len(pushed) = 1
    /\ Flushed = [isOpen |-> FALSE, searchValue |-> <<>>]

C17_ClosedMeansEmptySearch ==
    (status = "mounted" /\ ~state.isOpen) => state.searchValue = <<>>

\* C18: the instance has at most one document mousedown listener; a listener
\* added is removed when the dropdown closes or the component unmounts; none
\* remains after unmount.
C18_ListenerLifecycle ==
    /\ listeners \in {0, 1}
    /\ listeners = (IF cleanup THEN 1 ELSE 0)
    /\ (status = "mounted" /\ effectPending = "none" /\ ~state.isOpen)
           => listeners = 0
    /\ (status = "removed" /\ effectPending = "none") => listeners = 0
    /\ status \in {"unmounted", "error"} => listeners = 0

\* The component was removed while open, and its cleanup has run.
C18_Witness ==
    /\ status = "removed" /\ effectPending = "none"
    /\ lastEvent.op = "effect"
    /\ state.isOpen
    /\ listeners = 0

\* C19: a mousedown inside the container, or while the container reference
\* is unset, leaves the open state and the search value unchanged; a
\* mousedown anywhere while the dropdown is closed changes no state.
C19_InsideOrClosedMouseDownIsIgnored ==
    [][ lastEvent'.op = "mousedown" =>
          /\ (lastEvent'.inside \/ ~containerRef) =>
               /\ state' = state /\ pending' = pending
               /\ Flushed' = Flushed
          /\ ~state.isOpen =>
               UNCHANGED <<config, result, props, status, state, pending,
                           containerRef, listeners, cleanup, effectPending,
                           pushed>>
      ]_vars

\* The listener of the open dropdown heard a mousedown inside the container.
C19_Witness ==
    /\ status = "mounted"
    /\ lastEvent.op = "mousedown"
    /\ lastEvent.inside /\ lastEvent.heard /\ lastEvent.refSet
    /\ state = [isOpen |-> TRUE, searchValue |-> <<"e">>]
    /\ pending = <<>>

\* The places of a call in the calls a handler has made.
PlacesOf(calls, call) ==
    { i \in 1..Len(calls) : /\ calls[i].target = call.target
                            /\ calls[i].kind = call.kind
                            /\ calls[i].value = call.value }

\* C20: every call of onSelect leaves the dropdown closed and the search
\* value empty, and when it navigates it requests the close and the clear
\* before it calls router.push.
C20_SelectClosesBeforePush ==
    lastEvent.op = "onSelect" =>
        /\ Flushed = [isOpen |-> FALSE, searchValue |-> <<>>]
        /\ PlacesOf(lastEvent.calls, SetIsOpen(FALSE)) # {}
        /\ PlacesOf(lastEvent.calls, SetSearchValue(<<>>)) # {}
        /\ \A i \in 1..Len(lastEvent.calls) :
             lastEvent.calls[i].target = "router" =>
                /\ \E j \in PlacesOf(lastEvent.calls, SetIsOpen(FALSE)) : j < i
                /\ \E j \in PlacesOf(lastEvent.calls, SetSearchValue(<<>>)) : j < i

\* 'es' was selected on /en/... with 'E','N' typed in: the push comes third.
C20_Witness ==
    /\ lastEvent.op = "onSelect" /\ lastEvent.code = Es
    /\ props.currentLocale = En
    /\ state.searchValue # <<>>
    /\ Len(lastEvent.calls) = 3
    /\ lastEvent.calls[3].target = "router"
    /\ pushed = << lastEvent.calls[3].value >>

----------------------------------------------------------------------------
(* Properties of renderLanguageSwitcher, checked under SpecRender *)

Rendered == renderOut # Pending

\* The slots of the given name in a tree, whatever their place in it.
RECURSIVE SlotsNamed(_, _)
SlotsNamed(node, name) ==
    (IF node.slot = name THEN 1 ELSE 0) +
    (IF "children" \in DOMAIN node
     THEN LET Sum[i \in 0..Len(node.children)] ==
                  IF i = 0 THEN 0
                  ELSE Sum[i - 1] + SlotsNamed(node.children[i], name)
          IN  Sum[Len(node.children)]
     ELSE 0)

\* The slot of the given name, when the tree has one such slot.
RECURSIVE SlotNamed(_, _)
SlotNamed(node, name) ==
    IF node.slot = name THEN node
    ELSE LET i == CHOOSE k \in 1..Len(node.children) :
                     SlotsNamed(node.children[k], name) = 1
         IN  SlotNamed(node.children[i], name)

\* C21: renderLanguageSwitcher emits one Item slot per element of
\* view.filteredItems, in that order and keyed by the item's code; gives the
\* same isOpen to the Trigger and the Dropdown; and wires the Trigger to
\* onToggle, the SearchInput to onSearch and every Item to onSelect.
C21_SlotsFollowFilteredItems ==
    Rendered =>
        LET tree     == renderOut.value
            view     == result.view
            handlers == renderIn.handlers
            list     == SlotNamed(tree, "ItemsList").children
        IN  /\ SlotsNamed(tree, "Item") = Len(view.filteredItems)
            /\ Len(list) = Len(view.filteredItems)
            /\ \A i \in 1..Len(list) :
                 /\ list[i].slot = "Item"
                 /\ list[i].item = view.filteredItems[i]
                 /\ list[i].key = view.filteredItems[i].code
                 /\ list[i].onClick = handlers.onSelect
            /\ SlotsNamed(tree, "Trigger") = 1
            /\ SlotsNamed(tree, "Dropdown") = 1
            /\ SlotsNamed(tree, "SearchInput") = 1
            /\ SlotNamed(tree, "Trigger").isOpen = view.trigger.isOpen
            /\ SlotNamed(tree, "Dropdown").isOpen = view.trigger.isOpen
            /\ SlotNamed(tree, "Trigger").onClick = handlers.onToggle
            /\ SlotNamed(tree, "SearchInput").onChange = handlers.onSearch

\* 'EN' is searched for among de, es and en: one Item, for en, of three.
C21_Witness ==
    /\ Rendered
    /\ Len(result.view.items) = 3
    /\ result.view.search.value = <<"E","N">>
    /\ result.view.trigger.isOpen
    /\ Len(SlotNamed(renderOut.value, "ItemsList").children) = 1
    /\ SlotNamed(renderOut.value, "ItemsList").children[1].key = En

----------------------------------------------------------------------------
(* Properties of the browser helpers, checked under SpecBrowser *)

Detected  == browserOut # Pending
NoGlobals == DOMAIN browserIn.env = {}

\* C11: with window, document and navigator unavailable no helper throws and
\* each returns its safe default: 'no-touch', 'no-mobile', false, 'Unknown',
\* isSSR true, and a browser info of 'Unknown', 'no-touch', 'no-mobile',
\* empty userAgent, null viewport and empty platform.
C11_SafeDefaultsWithoutGlobals ==
    (Detected /\ NoGlobals) =>
        /\ browserOut.hasTouch = [threw |-> FALSE, value |-> "no-touch"]
        /\ browserOut.hasMobile = [threw |-> FALSE, value |-> "no-mobile"]
        /\ browserOut.isUserAgent = [threw |-> FALSE, value |-> FALSE]
        /\ browserOut.getUserAgent = [threw |-> FALSE, value |-> "Unknown"]
        /\ browserOut.isSSR = [threw |-> FALSE, value |-> TRUE]
        /\ ~browserOut.getBrowserInfo.threw
        /\ LET info == browserOut.getBrowserInfo.value
           IN  /\ info.name = "Unknown"
               /\ info.hasTouch = "no-touch"
               /\ info.isMobile = "no-mobile"
               /\ info.userAgent = <<>>
               /\ info.viewport = <<>>
               /\ info.platform = <<>>

C11_Witness ==
    /\ Detected /\ NoGlobals
    /\ browserIn.agent = <<"c","h","r","o","m","e">>
    /\ browserOut.isSSR.value
    /\ browserOut.getBrowserInfo.value.name = "Unknown"

\* The order in which getUserAgent is said to look for a browser.
DetectionOrder ==
    << [name |-> "Brave",   words |-> { <<"b","r","a","v","e">> }],
       [name |-> "Samsung", words |-> { <<"s","a","m","s","u","n","g">> }],
       [name |-> "Opera",   words |-> { <<"o","p","r">>, <<"o","p","e","r","a">> }],
       [name |-> "Edge",    words |-> { <<"e","d","g">> }],
       [name |-> "Chrome",  words |-> { <<"c","h","r","o","m","e">> }],
       [name |-> "Safari",  words |-> { <<"s","a","f","a","r","i">> }],
       [name |-> "Firefox", words |-> { <<"f","i","r","e","f","o","x">> }] >>

\* The user agent holds one of the words of entry i, letter case ignored.
Mentions(ua, i) ==
    \E w \in DetectionOrder[i].words : ContainsIgnoringCase(ua, w)

----------------------------------------------------------------------------
(* Properties of the routing helpers, checked under SpecRouting *)

Supported == Range(routeIn.routing.locales)

\* C12: getLocaleFromParams returns as currentLocale the first element of the
\* locale array, or the default locale when there is none, and isValidLocale
\* is true exactly when that currentLocale is a supported locale.
C12_CurrentLocaleAndValidity ==
    routeOut.status = "getLocaleFromParams" =>
        LET given == IF "locale" \in DOMAIN routeIn.params
                     THEN routeIn.params.locale ELSE <<>>
            out   == routeOut.value
        IN  /\ out.currentLocale = IF given = <<>>
                                   THEN routeIn.routing.defaultLocale
                                   ELSE given[1]
            /\ out.isValidLocale <=> out.currentLocale \in Supported

\* /fr on a site that does not support fr: the locale is reported, as invalid.
C12_Witness ==
    /\ routeOut.status = "getLocaleFromParams"
    /\ "locale" \in DOMAIN routeIn.params
    /\ routeIn.params.locale = <<Fr>>
    /\ routeOut.value.currentLocale = Fr
    /\ ~routeOut.value.isValidLocale

\* C13: generateStaticParams returns one parameter object with an empty
\* locale array, exactly one parameter object [l] for every supported
\* locale l, and nothing else.
C13_StaticParamsCoverLocales ==
    routeOut.status = "generateStaticParams" =>
        LET out         == routeOut.value
            Count(seg)  == Cardinality({ i \in 1..Len(out) : out[i] = [locale |-> seg] })
        IN  /\ Count(<<>>) = 1
            /\ \A l \in Supported : Count(<<l>>) = 1
            /\ \A i \in 1..Len(out) :
                 \/ out[i] = [locale |-> <<>>]
                 \/ \E l \in Supported : out[i] = [locale |-> <<l>>]

C13_Witness ==
    /\ routeOut.status = "generateStaticParams"
    /\ routeIn.routing.locales = <<Es, En>>
    /\ Len(routeOut.value) = 3

----------------------------------------------------------------------------
(* Properties of bemClassnames, checked under SpecClassname *)

\* A string with something other than spaces in it.
NonBlank(s) == s # Undefined /\ \E i \in 1..Len(s) : s[i] # " "

\* s without the spaces around it: the longest piece of s that neither
\* starts nor ends with a space.
Core(s) ==
    IF ~NonBlank(s) THEN <<>>
    ELSE LET lo == CHOOSE i \in 1..Len(s) :
                       s[i] # " " /\ \A k \in 1..(i - 1) : s[k] = " "
             hi == CHOOSE i \in 1..Len(s) :
                       s[i] # " " /\ \A k \in (i + 1)..Len(s) : s[k] = " "
         IN  SubSeq(s, lo, hi)

GivenElement   == IF "element" \in DOMAIN bemIn THEN bemIn.element ELSE Undefined
GivenModifiers == IF "classname" \in DOMAIN bemIn THEN bemIn.classname ELSE <<>>

\* The class names the call is to return, in order.
ExpectedClasses ==
    LET named == SelectSeq(GivenModifiers, NonBlank)
    IN  IF NonBlank(GivenElement)
        THEN << Core(GivenElement) >> \o
             [i \in 1..Len(named) |->
                 Core(GivenElement) \o <<"-">> \o Core(named[i])]
        ELSE [i \in 1..Len(named) |-> Core(named[i])]

\* The classes, each followed by one space, without the last space.
SpaceSeparated(classes) ==
    LET F[i \in 0..Len(classes)] ==
            IF i = 0 THEN <<>>
            ELSE IF i = 1 THEN classes[1]
            ELSE F[i - 1] \o <<" ">> \o classes[i]
    IN  F[Len(classes)]

\* C14: bemClassnames returns the trimmed element followed by each non-blank
\* modifier, trimmed and prefixed with 'element-', joined by single spaces;
\* the empty string when the element is blank and there are no modifiers;
\* and the trimmed modifiers without a prefix when the element is blank.
C14_BemClassnames ==
    bemOut # Pending =>
        /\ bemOut.value = SpaceSeparated(ExpectedClasses)
        /\ (~NonBlank(GivenElement) /\ GivenModifiers = <<>>) => bemOut.value = <<>>

\* ' b ' with [' m ', undefined, 'lg'] gives 'b b-m b-lg'.
C14_Witness ==
    /\ bemOut # Pending
    /\ GivenElement = <<" ","b"," ">>
    /\ GivenModifiers = << <<" ","m"," ">>, Undefined, <<"l","g">> >>
    /\ bemOut.value = <<"b"," ","b","-","m"," ","b","-","l","g">>

====
